---- MODULE Spec2Model ----
(***************************************************************************)
(* TextCorrection: ReplaceText.py (format-aware bulk substitution over a   *)
(* directory of LRC / SRT / ASS / plain-text files) and srt_formatter.py   *)
(* (blank-line insertion for SRT files).                                   *)
(*                                                                         *)
(* Text is modelled character by character: a Python str is a sequence of  *)
(* one-character strings, a file is the list readlines() returns (every    *)
(* line carrying its "\n"), and a replacement dict is the sequence of its  *)
(* (old, new) items in insertion order, keys distinct.                     *)
(***************************************************************************)
EXTENDS Integers, Sequences, FiniteSets, TLC

(***************************************************************************)
(* Bounds of the model.                                                    *)
(***************************************************************************)
MaxLines == 2      \* lines per file
MaxRules == 2      \* rules per replacement table
MaxFiles == 2      \* files met by one directory walk
MaxSrtLen == 5     \* characters of a file given to format_srt_file
MaxFormat == 2     \* successive applications of format_srt_file
MaxRuns == 2       \* successive runs of the program over the same file

(***************************************************************************)
(* Characters and string primitives (Python str methods).                  *)
(***************************************************************************)
NL == <<"\n">>
Whitespace == {" ", "\t", "\n", "\r"}
Digits == {"0", "1", "2", "3", "4", "5", "6", "7", "8", "9"}

RECURSIVE LStrip(_)
LStrip(s) ==
    IF s # <<>> /\ Head(s) \in Whitespace THEN LStrip(Tail(s)) ELSE s

RECURSIVE RStrip(_)
RStrip(s) ==
    IF s # <<>> /\ s[Len(s)] \in Whitespace
    THEN RStrip(SubSeq(s, 1, Len(s) - 1))
    ELSE s

\* str.strip()
Strip(s) == RStrip(LStrip(s))

\* str.rstrip('\n\r')
RECURSIVE RStripNewlines(_)
RStripNewlines(s) ==
    IF s # <<>> /\ s[Len(s)] \in {"\n", "\r"}
    THEN RStripNewlines(SubSeq(s, 1, Len(s) - 1))
    ELSE s

\* s[i:].startswith(pat)
MatchAt(s, i, pat) ==
    /\ i + Len(pat) - 1 <= Len(s)
    /\ SubSeq(s, i, i + Len(pat) - 1) = pat

\* old in s   (old non-empty)
Contains(s, old) == \E i \in 1..Len(s) : MatchAt(s, i, old)

\* s.count(old): non-overlapping occurrences, scanning left to right
RECURSIVE CountFrom(_, _, _)
CountFrom(s, old, i) ==
    IF i > Len(s) THEN 0
    ELSE IF MatchAt(s, i, old) THEN 1 + CountFrom(s, old, i + Len(old))
    ELSE CountFrom(s, old, i + 1)

Count(s, old) == CountFrom(s, old, 1)

\* s.replace(old, new): every non-overlapping occurrence, left to right
RECURSIVE ReplaceFrom(_, _, _, _)
ReplaceFrom(s, old, new, i) ==
    IF i > Len(s) THEN <<>>
    ELSE IF MatchAt(s, i, old) THEN new \o ReplaceFrom(s, old, new, i + Len(old))
    ELSE <<s[i]>> \o ReplaceFrom(s, old, new, i + 1)

Replace(s, old, new) == ReplaceFrom(s, old, new, 1)

\* str.isdigit()
IsDigit(s) == s # <<>> /\ \A i \in 1..Len(s) : s[i] \in Digits

(***************************************************************************)
(* TIMESTAMP_PATTERNS                                                      *)
(***************************************************************************)
SUPPORTED_EXTENSIONS == {".lrc", ".txt", ".srt", ".ass", ".ssa", ".vtt"}

\* 'lrc': ^(\[\d{2}:\d{2}(.\d{2})?\])(.*)$  -- length of group 1, 0 when the
\* line does not match.  The optional group is tried first (greedy).
LrcMatch(s) ==
    IF /\ Len(s) >= 7
       /\ s[1] = "[" /\ s[2] \in Digits /\ s[3] \in Digits
       /\ s[4] = ":" /\ s[5] \in Digits /\ s[6] \in Digits
    THEN IF /\ Len(s) >= 10
            /\ s[7] # "\n" /\ s[8] \in Digits /\ s[9] \in Digits
            /\ s[10] = "]"
         THEN 10
         ELSE IF s[7] = "]" THEN 7 ELSE 0
    ELSE 0

\* 'srt': ^(\d{2}:\d{2}:\d{2},\d{3} --> \d{2}:\d{2}:\d{2},\d{3})$ ; "#" is \d
SrtTemplate ==
    <<"#", "#", ":", "#", "#", ":", "#", "#", ",", "#", "#", "#",
      " ", "-", "-", ">", " ",
      "#", "#", ":", "#", "#", ":", "#", "#", ",", "#", "#", "#">>

SrtMatch(s) ==
    /\ Len(s) = Len(SrtTemplate)
    /\ \A i \in 1..Len(s) :
          IF SrtTemplate[i] = "#" THEN s[i] \in Digits ELSE s[i] = SrtTemplate[i]

\* 'ass': ^(Dialogue: .+?,)(.*)$  -- length of group 1, 0 when the line does
\* not match.  ".+?" is lazy: group 1 ends at the first comma that has at
\* least one character between it and "Dialogue: ".
DialogueLit == <<"D", "i", "a", "l", "o", "g", "u", "e", ":", " ">>

AssCommas(s) == {k \in (Len(DialogueLit) + 2)..Len(s) : s[k] = ","}

AssMatch(s) ==
    IF MatchAt(s, 1, DialogueLit) /\ AssCommas(s) # {}
    THEN CHOOSE k \in AssCommas(s) : \A j \in AssCommas(s) : k <= j
    ELSE 0

\* detect_file_type, on an extension already lower-cased
detect_file_type(ext) == ext

(***************************************************************************)
(* The rule loop.  replacement_counts is a dict: a function whose domain   *)
(* is the set of keys present.                                             *)
(***************************************************************************)
DictGet(d, k, default) == IF k \in DOMAIN d THEN d[k] ELSE default

DictSet(d, k, v) == [x \in (DOMAIN d) \cup {k} |-> IF x = k THEN v ELSE d[x]]

\* the loop with "counts[old] = count" in place of "counts[old] = get + count"
RECURSIVE RuleLoopOverwrite(_, _, _, _, _)
RuleLoopOverwrite(text, replacements, counts, modified, i) ==
    IF i > Len(replacements)
    THEN [text |-> text, counts |-> counts, modified |-> modified]
    ELSE IF Contains(text, replacements[i].old)
    THEN RuleLoopOverwrite(Replace(text, replacements[i].old, replacements[i].new),
                           replacements,
                           DictSet(counts, replacements[i].old,
                                   Count(text, replacements[i].old)),
                           TRUE, i + 1)
    ELSE RuleLoopOverwrite(text, replacements, counts, modified, i + 1)

\* for old_text, new_text in replacements.items(): ... starting at rule i
RECURSIVE RuleLoopFrom(_, _, _, _, _)
RuleLoopFrom(text, replacements, counts, modified, i) ==
    IF i > Len(replacements)
    THEN [text |-> text, counts |-> counts, modified |-> modified]
    ELSE LET old_text == replacements[i].old
             new_text == replacements[i].new
         IN  IF Contains(text, old_text)
             THEN RuleLoopFrom(Replace(text, old_text, new_text),
                               replacements,
                               DictSet(counts, old_text,
                                       DictGet(counts, old_text, 0) + Count(text, old_text)),
                               TRUE, i + 1)
             ELSE RuleLoopFrom(text, replacements, counts, modified, i + 1)

Reverse(q) == [i \in 1..Len(q) |-> q[Len(q) + 1 - i]]

\* the loop run over the items in the opposite order
LrcRulesReversed(text, replacements, counts) ==
    RuleLoopFrom(text, Reverse(replacements), counts, FALSE, 1)

\* the four copies of the loop
LrcRules(text, replacements, counts) == RuleLoopFrom(text, replacements, counts, FALSE, 1)

SrtRules(text, replacements, counts) == RuleLoopFrom(text, replacements, counts, FALSE, 1)

AssRules(text, replacements, counts) == RuleLoopFrom(text, replacements, counts, FALSE, 1)

TxtRules(text, replacements, counts) == RuleLoopFrom(text, replacements, counts, FALSE, 1)

(***************************************************************************)
(* Per-line processing.  Each result tells what the line contributes to    *)
(* processed_lines (out: no line or one line), whether it sets modified,   *)
(* and the counters after it.                                              *)
(***************************************************************************)
LineResult(out, modified, counts, empty) ==
    [out |-> out, modified |-> modified, counts |-> counts, empty |-> empty]

\* process_lrc_content after the rule loop; r is what the loop left
LrcEmit(timestamp, r, empty_line_count) ==
    IF r.text = <<>>
    THEN LineResult(<<>>, TRUE, r.counts, empty_line_count + 1)
    ELSE LineResult(<<timestamp \o r.text \o NL>>, r.modified, r.counts, empty_line_count)

\* the rules applied to the whole line, timestamp included
SubstituteWholeLine(line, replacements, replacement_counts, empty_line_count) ==
    IF Strip(line) = <<>>
    THEN LineResult(<<>>, FALSE, replacement_counts, empty_line_count)
    ELSE LrcEmit(<<>>, LrcRules(Strip(line), replacements, replacement_counts),
                 empty_line_count)

process_lrc_content(line, replacements, replacement_counts, empty_line_count) ==
    LET original_line == Strip(line)
        n == LrcMatch(original_line)
    IN  IF original_line = <<>>
        THEN LineResult(<<>>, FALSE, replacement_counts, empty_line_count)
        ELSE IF n > 0
        THEN LET timestamp == SubSeq(original_line, 1, n)
                 lyrics == Strip(SubSeq(original_line, n + 1, Len(original_line)))
             IN  LrcEmit(timestamp, LrcRules(lyrics, replacements, replacement_counts),
                         empty_line_count)
        ELSE LineResult(<<original_line \o NL>>, FALSE,
                        replacement_counts, empty_line_count)

\* process_srt_content after the rule loop
SrtEmit(r, empty_line_count) ==
    IF Strip(r.text) # <<>>
    THEN LineResult(<<r.text \o NL>>, r.modified, r.counts, empty_line_count)
    ELSE LineResult(<<>>, TRUE, r.counts, empty_line_count + 1)

\* one iteration of the while loop of process_srt_content
SrtLine(raw, replacements, replacement_counts, empty_line_count) ==
    LET line == Strip(raw)
    IN  IF line = <<>>
        THEN LineResult(<<>>, FALSE, replacement_counts, empty_line_count)
        ELSE IF IsDigit(line) \/ SrtMatch(line)
        THEN LineResult(<<line \o NL>>, FALSE, replacement_counts, empty_line_count)
        ELSE SrtEmit(SrtRules(line, replacements, replacement_counts), empty_line_count)

\* process_ass_content after the rule loop
AssEmit(dialogue_prefix, r, empty_line_count) ==
    IF Strip(r.text) # <<>>
    THEN LineResult(<<dialogue_prefix \o r.text \o NL>>, r.modified,
                    r.counts, empty_line_count)
    ELSE LineResult(<<>>, TRUE, r.counts, empty_line_count + 1)

\* one iteration of the for loop of process_ass_content
AssLine(line, replacements, replacement_counts, empty_line_count) ==
    LET original_line == Strip(line)
        n == AssMatch(original_line)
    IN  IF original_line = <<>>
        THEN LineResult(<<>>, FALSE, replacement_counts, empty_line_count)
        ELSE IF n > 0
        THEN LET dialogue_prefix == SubSeq(original_line, 1, n)
                 dialogue_text == SubSeq(original_line, n + 1, Len(original_line))
             IN  AssEmit(dialogue_prefix,
                         AssRules(dialogue_text, replacements, replacement_counts),
                         empty_line_count)
        ELSE LineResult(<<original_line \o NL>>, FALSE,
                        replacement_counts, empty_line_count)

\* process_txt_content after the rule loop
TxtEmit(r, empty_line_count) ==
    IF Strip(r.text) # <<>>
    THEN LineResult(<<r.text \o NL>>, r.modified, r.counts, empty_line_count)
    ELSE LineResult(<<>>, TRUE, r.counts, empty_line_count + 1)

\* one iteration of the for loop of process_txt_content
TxtLine(line, replacements, replacement_counts, empty_line_count) ==
    LET original_line == RStripNewlines(line)
    IN  IF Strip(original_line) = <<>>
        THEN LineResult(<<>>, FALSE, replacement_counts, empty_line_count)
        ELSE TxtEmit(TxtRules(original_line, replacements, replacement_counts),
                     empty_line_count)

\* the branch of process_text_file taken for a file type
FormatOf(file_type) ==
    IF file_type = ".lrc" THEN "lrc"
    ELSE IF file_type = ".srt" THEN "srt"
    ELSE IF file_type \in {".ass", ".ssa"} THEN "ass"
    ELSE "txt"

LineStep(format, line, replacements, counts, empty) ==
    IF format = "lrc" THEN process_lrc_content(line, replacements, counts, empty)
    ELSE IF format = "srt" THEN SrtLine(line, replacements, counts, empty)
    ELSE IF format = "ass" THEN AssLine(line, replacements, counts, empty)
    ELSE TxtLine(line, replacements, counts, empty)

\* "modified = line_modified" in place of "if line_modified: modified = True"
AccumulateLast(acc, line, r) ==
    [processed_lines |-> acc.processed_lines \o r.out,
     modified |-> r.modified,
     counts |-> r.counts,
     empty |-> r.empty,
     trace |-> Append(acc.trace, [line |-> line, out |-> r.out, modified |-> r.modified])]

\* What one line adds to the result of the file: processed_lines.append and
\* "modified = True".  trace keeps, per input line, what the line was and
\* what it put into processed_lines.
Accumulate(acc, line, r) ==
    [processed_lines |-> acc.processed_lines \o r.out,
     modified |-> acc.modified \/ r.modified,
     counts |-> r.counts,
     empty |-> r.empty,
     trace |-> Append(acc.trace, [line |-> line, out |-> r.out, modified |-> r.modified])]

\* the loop over the lines of one file
RECURSIVE ForEachLine(_, _, _, _, _)
ForEachLine(format, lines, replacements, acc, i) ==
    IF i > Len(lines) THEN acc
    ELSE ForEachLine(format, lines, replacements,
                     Accumulate(acc, lines[i],
                                LineStep(format, lines[i], replacements,
                                         acc.counts, acc.empty)),
                     i + 1)

ProcessContent(format, lines, replacements, replacement_counts, empty_line_count) ==
    ForEachLine(format, lines, replacements,
                [processed_lines |-> <<>>, modified |-> FALSE,
                 counts |-> replacement_counts, empty |-> empty_line_count,
                 trace |-> <<>>],
                1)

(***************************************************************************)
(* process_text_file.  fault is what the file system does to this call:    *)
(* "none", "read" (open/readlines raises) or "write" (open for writing     *)
(* raises).  Every exception is caught by the function's own handler,      *)
(* which returns False; nothing propagates to the caller.                  *)
(***************************************************************************)
CallResult(ret, content, wrote, p, raised) ==
    [ret |-> ret, content |-> content, wrote |-> wrote, counts |-> p.counts,
     empty |-> p.empty, trace |-> p.trace, raised |-> raised, propagated |-> FALSE]

\* the file written back whether modified or not
WriteBackAlways(f, p, fault) ==
    CallResult(TRUE, p.processed_lines, TRUE, p, FALSE)

\* "if modified: ... return True / return False", and the handler
WriteBack(f, p, fault) ==
    IF p.modified /\ fault = "write"
    THEN CallResult(FALSE, f.lines, FALSE, p, TRUE)
    ELSE IF p.modified
    THEN CallResult(TRUE, p.processed_lines, TRUE, p, FALSE)
    ELSE CallResult(FALSE, f.lines, FALSE, p, FALSE)

process_text_file(f, replacements, replacement_counts, empty_line_count, fault) ==
    IF fault = "read"
    THEN CallResult(FALSE, f.lines, FALSE,
                    [counts |-> replacement_counts, empty |-> empty_line_count,
                     trace |-> <<>>],
                    TRUE)
    ELSE WriteBack(f,
                   ProcessContent(FormatOf(detect_file_type(f.ext)), f.lines,
                                  replacements, replacement_counts, empty_line_count),
                   fault)

(***************************************************************************)
(* process_directory: the counters of a run and the body of the walk.      *)
(***************************************************************************)
InitStats == [total_files |-> 0, modified_files |-> 0, error_files |-> 0]

EmptyDict == [k \in {} |-> 0]

\* the walk's bookkeeping after process_text_file returned r
Tally(st, r) ==
    [stats |-> IF r.propagated
               THEN [st EXCEPT !.total_files = @ + 1, !.error_files = @ + 1]
               ELSE IF r.ret
               THEN [st EXCEPT !.total_files = @ + 1, !.modified_files = @ + 1]
               ELSE [st EXCEPT !.total_files = @ + 1],
     counts |-> r.counts, empty |-> r.empty, content |-> r.content,
     ret |-> r.ret, wrote |-> r.wrote, trace |-> r.trace, raised |-> r.raised]

\* the body of "for file in files" for one file
WalkBody(st, counts, empty, f, replacements, fault) ==
    IF f.ext \notin SUPPORTED_EXTENSIONS
    THEN [stats |-> st, counts |-> counts, empty |-> empty, content |-> f.lines,
          ret |-> FALSE, wrote |-> FALSE, trace |-> <<>>, raised |-> FALSE]
    ELSE Tally(st, process_text_file(f, replacements, counts, empty, fault))

(***************************************************************************)
(* srt_formatter.format_srt_file on the text of a file.                    *)
(***************************************************************************)
\* end of the run of digits that starts at i (i - 1 when s[i] is no digit)
RECURSIVE DigitsEnd(_, _)
DigitsEnd(s, i) ==
    IF i <= Len(s) /\ s[i] \in Digits THEN DigitsEnd(s, i + 1) ELSE i - 1

\* re.sub(r'(\n\d+\n)', r'\n\1', content): matches are found left to right
\* and do not overlap
RECURSIVE SubIndexLines(_, _)
SubIndexLines(s, i) ==
    IF i > Len(s) THEN <<>>
    ELSE LET j == DigitsEnd(s, i + 1)
         IN  IF s[i] = "\n" /\ j >= i + 1 /\ j + 1 <= Len(s) /\ s[j + 1] = "\n"
             THEN NL \o SubSeq(s, i, j + 1) \o SubIndexLines(s, j + 2)
             ELSE <<s[i]>> \o SubIndexLines(s, i + 1)

EndsWith(s, suffix) ==
    Len(s) >= Len(suffix) /\ SubSeq(s, Len(s) - Len(suffix) + 1, Len(s)) = suffix

format_srt_file(content) ==
    LET formatted_content == SubIndexLines(content, 1)
    IN  IF ~EndsWith(formatted_content, NL \o NL)
        THEN formatted_content \o NL
        ELSE formatted_content

(***************************************************************************)
(* Inputs: payload texts, lines of each format, files, replacement tables. *)
(***************************************************************************)
SeqsUpTo(S, n) == UNION {[1..k -> S] : k \in 0..n}

Payloads == {<<>>, <<"a">>, <<"a", "b">>}

Ts1 == <<"[", "0", "0", ":", "0", "1", ".", "0", "0", "]">>

Ts2 == <<"[", "0", "0", ":", "0", "1", "]">>

LrcMeta == <<"[", "a", "r", ":", "a", "]">>

SrtRange ==
    <<"0", "0", ":", "0", "0", ":", "0", "1", ",", "0", "0", "0",
      " ", "-", "-", ">", " ",
      "0", "0", ":", "0", "0", ":", "0", "2", ",", "0", "0", "0">>

AssHeader ==
    <<"D", "i", "a", "l", "o", "g", "u", "e", ":", " ", "0", ",",
      "0", ":", "0", "0", ":", "0", "1", ".", "0", "0", ",",
      "0", ":", "0", "0", ":", "0", "2", ".", "0", "0", ",",
      "D", "e", "f", "a", "u", "l", "t", ",", ",", "0", ",", "0", ",", "0", ",", ",">>

AssStyle == <<"S", "t", "y", "l", "e", ":", " ", "a">>

\* line bodies, before the "\n" readlines() leaves on each line
LineBodies(format) ==
    IF format = "lrc"
    THEN {Ts1 \o p : p \in Payloads}
         \cup {<<" ">> \o Ts2 \o <<" ", "a", " ">>, LrcMeta, <<>>}
    ELSE IF format = "srt"
    THEN {<<"1">>, SrtRange, <<"a", "b">>, <<>>}
    ELSE IF format = "ass"
    THEN {AssHeader \o p : p \in Payloads} \cup {AssStyle, <<>>}
    ELSE {<<"a">>, <<"a", "b">>, <<" ", "a">>, <<>>}

Lines(format) == {b \o NL : b \in LineBodies(format)}

FilesOf(ext, n) == {[ext |-> ext, lines |-> l] : l \in SeqsUpTo(Lines(FormatOf(ext)), n)}

Files ==
    FilesOf(".lrc", MaxLines) \cup FilesOf(".srt", MaxLines)
    \cup FilesOf(".ass", MaxLines) \cup FilesOf(".txt", MaxLines)
    \cup FilesOf(".ssa", 1) \cup FilesOf(".vtt", 1)

Rule(old, new) == [old |-> old, new |-> new]

Rules ==
    { Rule(<<"a">>, <<"b">>), Rule(<<"b">>, <<"c">>), Rule(<<"a">>, <<>>),
      Rule(<<"a">>, <<" ">>), Rule(<<"a">>, <<"a">>),
      Rule(<<"0">>, <<"a">>) }

\* a dict has one item per key; no key is the empty string (spec 3: old is
\* non-empty)
Tables ==
    {t \in SeqsUpTo(Rules, MaxRules) :
        \A i, j \in 1..Len(t) : i # j => t[i].old # t[j].old}

Faults == {"none", "read", "write"}

SrtChars == {"\n", "1", "x"}

SrtTexts == SeqsUpTo(SrtChars, MaxSrtLen)

(***************************************************************************)
(* What a run is expected to count, computed from the file as it was       *)
(* before the call: the payloads of its lines and, for rule k, the text    *)
(* each payload has become when rule k is reached.                         *)
(***************************************************************************)
\* the substitution-eligible text of a line: <<>> when it has none, <<p>> else
PayloadOf(format, line) ==
    IF format = "lrc"
    THEN LET s == Strip(line)
         IN  IF s # <<>> /\ LrcMatch(s) > 0
             THEN <<Strip(SubSeq(s, LrcMatch(s) + 1, Len(s)))>>
             ELSE <<>>
    ELSE IF format = "srt"
    THEN LET s == Strip(line)
         IN  IF s # <<>> /\ ~IsDigit(s) /\ ~SrtMatch(s) THEN <<s>> ELSE <<>>
    ELSE IF format = "ass"
    THEN LET s == Strip(line)
         IN  IF s # <<>> /\ AssMatch(s) > 0
             THEN <<SubSeq(s, AssMatch(s) + 1, Len(s))>>
             ELSE <<>>
    ELSE IF Strip(line) # <<>> THEN <<RStripNewlines(line)>> ELSE <<>>

RECURSIVE TextBefore(_, _, _)
TextBefore(p, table, k) ==
    IF k = 1 THEN p
    ELSE Replace(TextBefore(p, table, k - 1), table[k - 1].old, table[k - 1].new)

RECURSIVE Occurrences(_, _, _, _, _)
Occurrences(format, lines, table, k, i) ==
    IF i > Len(lines) THEN 0
    ELSE LET po == PayloadOf(format, lines[i])
         IN  (IF po = <<>> THEN 0 ELSE Count(TextBefore(po[1], table, k), table[k].old))
             + Occurrences(format, lines, table, k, i + 1)

RECURSIVE SumSeq(_)
SumSeq(q) == IF q = <<>> THEN 0 ELSE Head(q) + SumSeq(Tail(q))

FileOccurrences(f, table, fault) ==
    [k \in 1..Len(table) |->
        IF f.ext \in SUPPORTED_EXTENSIONS /\ fault # "read"
        THEN Occurrences(FormatOf(f.ext), f.lines, table, k, 1)
        ELSE 0]

(***************************************************************************)
(* State.                                                                  *)
(***************************************************************************)
VARIABLES
    replacements,        \* the table load_replacements returned
    file,                \* the file under study, as it is on disk
    original,            \* its lines before the first run
    input,               \* its lines before the last run
    trace,               \* per line of input: what the last run emitted
    ret,                 \* what the last process_text_file call returned
    wrote,               \* whether that call wrote the file
    stats,               \* stats of the current process_directory run
    replacement_counts,  \* its per-rule counter
    empty_line_count,    \* its dropped-line counter
    run,                 \* runs of the program so far
    visited,             \* files the current walk has met
    done,                \* the walk is over
    failed,              \* files of the walk whose processing raised
    expected,            \* per rule: occurrences the walk's files held
    last_added,          \* occurrences, over all rules, the last file held
    srt,                 \* text of the file given to format_srt_file
    srt_once,            \* that text after the first application
    formatted            \* applications of format_srt_file so far

vars ==
    <<replacements, file, original, input, trace, ret, wrote, stats, replacement_counts,
      empty_line_count, run, visited, done, failed, expected, last_added,
      srt, srt_once, formatted>>

engineVars == <<file, original, input, trace, run>>

walkVars == <<visited, done, failed, expected, last_added>>

srtVars == <<srt, srt_once, formatted>>

NoFile == [ext |-> ".txt", lines |-> <<>>]

\* process_directory up to the walk: the counters of a fresh run
FreshRun ==
    /\ stats = InitStats
    /\ replacement_counts = EmptyDict
    /\ empty_line_count = 0
    /\ ret = FALSE
    /\ wrote = FALSE

(***************************************************************************)
(* Spec: the program run, and run again, in a directory that holds one     *)
(* file.                                                                   *)
(***************************************************************************)
Init ==
    /\ replacements \in Tables
    /\ file \in Files
    /\ original = file.lines
    /\ input = file.lines
    /\ trace = <<>>
    /\ run = 0
    /\ FreshRun
    /\ visited = 0 /\ done = FALSE /\ failed = 0
    /\ expected = <<>> /\ last_added = 0
    /\ srt = <<>> /\ srt_once = <<>> /\ formatted = 0

RunProgram ==
    /\ run < MaxRuns
    /\ \E w \in {WalkBody(InitStats, EmptyDict, 0, file, replacements, "none")} :
           /\ file' = [file EXCEPT !.lines = w.content]
           /\ input' = file.lines
           /\ trace' = w.trace
           /\ ret' = w.ret
           /\ wrote' = w.wrote
           /\ stats' = w.stats
           /\ replacement_counts' = w.counts
           /\ empty_line_count' = w.empty
    /\ run' = run + 1
    /\ UNCHANGED <<replacements, original, walkVars, srtVars>>

Next == RunProgram

Spec == Init /\ [][Next]_vars

(***************************************************************************)
(* SpecWalk: one run of process_directory over a directory whose files     *)
(* are met one at a time.                                                  *)
(***************************************************************************)
WalkLineBodies(format) ==
    IF format = "lrc" THEN {Ts1 \o <<"a">>}
    ELSE IF format = "srt" THEN {<<"a">>}
    ELSE IF format = "ass" THEN {AssHeader \o <<"a">>}
    ELSE {<<"a">>, <<"a", "b">>}

WalkFilesOf(ext) ==
    {[ext |-> ext, lines |-> l] :
        l \in SeqsUpTo({b \o NL : b \in WalkLineBodies(FormatOf(ext))}, MaxLines)}

WalkFiles ==
    WalkFilesOf(".lrc") \cup WalkFilesOf(".srt") \cup WalkFilesOf(".ass")
    \cup WalkFilesOf(".txt") \cup {[ext |-> ".md", lines |-> <<<<"a">> \o NL>>]}

WalkRules == {Rule(<<"a">>, <<"b">>), Rule(<<"b">>, <<"c">>)}

WalkTables == {t \in Tables : \A i \in 1..Len(t) : t[i] \in WalkRules}

InitWalk ==
    /\ replacements \in WalkTables
    /\ file = NoFile /\ original = <<>> /\ input = <<>> /\ trace = <<>> /\ run = 1
    /\ FreshRun
    /\ visited = 0 /\ done = FALSE /\ failed = 0
    /\ expected = [k \in 1..Len(replacements) |-> 0]
    /\ last_added = 0
    /\ srt = <<>> /\ srt_once = <<>> /\ formatted = 0

WalkFile ==
    /\ ~done
    /\ visited < MaxFiles
    /\ \E f \in WalkFiles, fault \in Faults :
          \E w \in {WalkBody(stats, replacement_counts, empty_line_count,
                             f, replacements, fault)},
             occ \in {FileOccurrences(f, replacements, fault)} :
              /\ stats' = w.stats
              /\ replacement_counts' = w.counts
              /\ empty_line_count' = w.empty
              /\ failed' = failed + (IF w.raised THEN 1 ELSE 0)
              /\ expected' = [k \in 1..Len(replacements) |-> expected[k] + occ[k]]
              /\ last_added' = SumSeq(occ)
    /\ visited' = visited + 1
    /\ UNCHANGED <<replacements, engineVars, ret, wrote, done, srtVars>>

\* os.walk is exhausted: the report is written
FinishWalk ==
    /\ ~done
    /\ done' = TRUE
    /\ UNCHANGED <<replacements, engineVars, ret, wrote, stats, replacement_counts,
                   empty_line_count, visited, failed, expected, last_added, srtVars>>

NextWalk == WalkFile \/ FinishWalk

SpecWalk == InitWalk /\ [][NextWalk]_vars

(***************************************************************************)
(* SpecSrt: format_srt_file applied to one file, again and again.          *)
(***************************************************************************)
InitSrt ==
    /\ replacements = <<>>
    /\ file = NoFile /\ original = <<>> /\ input = <<>> /\ trace = <<>> /\ run = 0
    /\ FreshRun
    /\ visited = 0 /\ done = FALSE /\ failed = 0
    /\ expected = <<>> /\ last_added = 0
    /\ srt \in SrtTexts
    /\ srt_once = srt
    /\ formatted = 0

FormatSrt ==
    /\ formatted < MaxFormat
    /\ \E out \in {format_srt_file(srt)} :
          /\ srt' = out
          /\ srt_once' = IF formatted = 0 THEN out ELSE srt_once
    /\ formatted' = formatted + 1
    /\ UNCHANGED <<replacements, engineVars, ret, wrote, stats, replacement_counts,
                   empty_line_count, walkVars>>

NextSrt == FormatSrt

SpecSrt == InitSrt /\ [][NextSrt]_vars

(***************************************************************************)
(* Vocabulary of the properties.                                           *)
(***************************************************************************)
Format == FormatOf(file.ext)

\* the text a payload has become when every rule has been applied in order
TextFinal(p) == TextBefore(p, replacements, Len(replacements) + 1)

\* the structural fragment in front of a line's payload
PrefixOf(format, line) ==
    IF format = "lrc" THEN SubSeq(Strip(line), 1, LrcMatch(Strip(line)))
    ELSE IF format = "ass" THEN SubSeq(Strip(line), 1, AssMatch(Strip(line)))
    ELSE <<>>

\* some rule's old text occurs in text
AnyOldIn(text) == \E k \in 1..Len(replacements) : Contains(text, replacements[k].old)

\* no rule's old text occurs in any payload of lines
NoMatch(format, lines) ==
    \A i \in 1..Len(lines) :
        PayloadOf(format, lines[i]) # <<>> => ~AnyOldIn(PayloadOf(format, lines[i])[1])

\* no line of lines has a payload that is blank as it stands
NoBlankPayload(format, lines) ==
    \A i \in 1..Len(lines) :
        PayloadOf(format, lines[i]) # <<>> => Strip(PayloadOf(format, lines[i])[1]) # <<>>

\* a payload text the format's emptiness test drops
Dropped(format, text) == IF format = "lrc" THEN text = <<>> ELSE Strip(text) = <<>>

\* position of the n-th comma of s, 0 when s has fewer
RECURSIVE NthComma(_, _, _)
NthComma(s, n, i) ==
    IF i > Len(s) THEN 0
    ELSE IF s[i] = "," THEN (IF n = 1 THEN i ELSE NthComma(s, n - 1, i + 1))
    ELSE NthComma(s, n, i + 1)

\* An ASS event line is "Dialogue: Layer,Start,End,Style,Name,MarginL,MarginR,
\* MarginV,Effect,Text": the header is everything up to the ninth comma.
AssHeaderLen(s) == NthComma(s, 9, 1)

(***************************************************************************)
(* C1: in an ASS/SSA dialogue line every header field in front of the      *)
(* free text (layer, start, end, style, name, margins, effect) is the same *)
(* in the emitted line as in the input line, whatever the table.           *)
(***************************************************************************)
HeaderFieldsKept ==
    (run >= 1 /\ Format = "ass") =>
        \A i \in 1..Len(trace) :
            LET s == Strip(trace[i].line)
            IN  (AssMatch(s) > 0 /\ AssHeaderLen(s) > 0 /\ trace[i].out # <<>>) =>
                    SubSeq(trace[i].out[1], 1, AssHeaderLen(s)) = SubSeq(s, 1, AssHeaderLen(s))

(***************************************************************************)
(* C2 as stated: a second run with the same table leaves the file as the   *)
(* first run left it and returns False.  Stated for the plain-text path    *)
(* and for tables without a rule whose new text is its old text, so that   *)
(* a violation owes nothing to the LRC emptiness test (C9) or to the flag  *)
(* such a rule sets (C10).                                                 *)
(***************************************************************************)
NoIdentityRule == \A k \in 1..Len(replacements) : replacements[k].new # replacements[k].old

NoMatchNoRewrite ==
    (run >= 1 /\ NoMatch(Format, input)) =>
        (~wrote /\ ret = FALSE /\ stats.modified_files = 0 /\ file.lines = input)

(***************************************************************************)
(* C3 amended: a file in which no rule's old text occurs in any payload    *)
(* and no payload is blank is not written, the call returns False and      *)
(* modified_files stays.                                                   *)
(***************************************************************************)
NoMatchNoBlankNoRewrite ==
    (run >= 1 /\ NoMatch(Format, input) /\ NoBlankPayload(Format, input)) =>
        (~wrote /\ ret = FALSE /\ stats.modified_files = 0 /\ file.lines = input)

\* a run over a file that has payloads, under a table that has rules, none
\* of which applies
UntouchedFile ==
    /\ run = 1
    /\ replacements # <<>>
    /\ \E i \in 1..Len(input) : PayloadOf(Format, input[i]) # <<>>
    /\ NoMatch(Format, input)
    /\ NoBlankPayload(Format, input)
    /\ ~wrote

(***************************************************************************)
(* C4: at the end of the walk error_files is the number of files whose     *)
(* processing raised.                                                      *)
(***************************************************************************)
ErrorsCounted ==
    done => stats.error_files = failed

(***************************************************************************)
(* C5: applying format_srt_file again leaves the text the first            *)
(* application left.                                                       *)
(***************************************************************************)
FormatIdempotent ==
    formatted >= 2 => srt = srt_once

(***************************************************************************)
(* C6: every payload is emitted as the text obtained by applying the rules *)
(* one after the other in table order, each to the result of the one       *)
(* before (or dropped when that text is empty); under [a->b, b->c] the     *)
(* payload "a" is emitted as "c".  The same in all four formats.           *)
(***************************************************************************)
RulesAppliedInOrder ==
    run >= 1 =>
        \A i \in 1..Len(trace) :
            LET po == PayloadOf(Format, trace[i].line)
                prefix == PrefixOf(Format, trace[i].line)
            IN  po # <<>> =>
                    /\ trace[i].out =
                          IF Dropped(Format, TextFinal(po[1]))
                          THEN <<>>
                          ELSE <<prefix \o TextFinal(po[1]) \o NL>>
                    /\ ( /\ replacements = <<Rule(<<"a">>, <<"b">>), Rule(<<"b">>, <<"c">>)>>
                         /\ po[1] = <<"a">> )
                       => trace[i].out = <<prefix \o <<"c">> \o NL>>

\* an LRC payload "a" that went through [a->b, b->c] and came out "c"
ChainedRuleSeen ==
    /\ run >= 1
    /\ Format = "lrc"
    /\ replacements = <<Rule(<<"a">>, <<"b">>), Rule(<<"b">>, <<"c">>)>>
    /\ \E i \in 1..Len(trace) :
          /\ PayloadOf(Format, trace[i].line) = <<<<"a">>>>
          /\ trace[i].out = <<PrefixOf(Format, trace[i].line) \o <<"c">> \o NL>>

(***************************************************************************)
(* C7: an LRC timestamp, an SRT index line and an SRT time-range line are  *)
(* emitted with the characters they had; an LRC line without a timestamp   *)
(* is emitted as it was, without substitution.                             *)
(***************************************************************************)
StructureKept ==
    run >= 1 =>
        \A i \in 1..Len(trace) :
            LET s == Strip(trace[i].line)
            IN  /\ (Format = "lrc" /\ s # <<>> /\ LrcMatch(s) > 0 /\ trace[i].out # <<>>)
                      => SubSeq(trace[i].out[1], 1, LrcMatch(s)) = SubSeq(s, 1, LrcMatch(s))
                /\ (Format = "lrc" /\ s # <<>> /\ LrcMatch(s) = 0)
                      => (trace[i].out = <<s \o NL>> /\ ~trace[i].modified)
                /\ (Format = "srt" /\ (IsDigit(s) \/ SrtMatch(s)))
                      => (trace[i].out = <<s \o NL>> /\ ~trace[i].modified)

\* a rule's old text occurs inside the timestamp of an LRC line whose lyric
\* was substituted and emitted
StructureUnderAttack ==
    /\ run >= 1
    /\ Format = "lrc"
    /\ \E i \in 1..Len(trace) :
          /\ LrcMatch(Strip(trace[i].line)) > 0
          /\ AnyOldIn(PrefixOf(Format, trace[i].line))
          /\ trace[i].modified
          /\ trace[i].out # <<>>

(***************************************************************************)
(* C8: during a walk the counter of a rule is the sum, over the payloads   *)
(* of the files met so far, of the occurrences of its old text in the text *)
(* the payload had become when the rule was reached; a rule that never     *)
(* matched has no entry; and no step of the walk lowers a counter.         *)
(***************************************************************************)
CountsAreSums ==
    /\ \A k \in 1..Len(replacements) :
          DictGet(replacement_counts, replacements[k].old, 0) = expected[k]
    /\ \A key \in DOMAIN replacement_counts :
          /\ replacement_counts[key] > 0
          /\ \E k \in 1..Len(replacements) : replacements[k].old = key

CountsGrow ==
    \A key \in DOMAIN replacement_counts :
        /\ key \in DOMAIN replacement_counts'
        /\ replacement_counts'[key] >= replacement_counts[key]

CountsAccumulate == [](CountsAreSums) /\ [][CountsGrow]_vars

\* two occurrences in one file, then one in the next: the counter is 3
TwoThenOne ==
    /\ visited = 2
    /\ replacements = <<Rule(<<"a">>, <<"b">>)>>
    /\ DictGet(replacement_counts, <<"a">>, 0) = 3
    /\ last_added = 1

(***************************************************************************)
(* C9: a timestamped LRC line whose lyric is empty after substitution is   *)
(* dropped and counted once, and a rewritten LRC file holds no timestamp   *)
(* with no lyric text after it.                                            *)
(***************************************************************************)
DroppedLrcLines ==
    Cardinality({i \in 1..Len(trace) :
                    /\ PayloadOf("lrc", trace[i].line) # <<>>
                    /\ TextFinal(PayloadOf("lrc", trace[i].line)[1]) = <<>>})

NoBareTimestamp ==
    (run >= 1 /\ Format = "lrc") =>
        /\ \A i \in 1..Len(trace) :
              ( /\ PayloadOf("lrc", trace[i].line) # <<>>
                /\ TextFinal(PayloadOf("lrc", trace[i].line)[1]) = <<>> )
              => trace[i].out = <<>>
        /\ empty_line_count = DroppedLrcLines
        /\ wrote =>
              \A j \in 1..Len(file.lines) :
                  PayloadOf("lrc", file.lines[j]) # <<>>
                      => PayloadOf("lrc", file.lines[j])[1] # <<>>

(***************************************************************************)
(* C10: a line whose text is the same after the rules as before and that   *)
(* is not dropped does not set the modified flag; a file made of such      *)
(* lines is not rewritten.                                                 *)
(***************************************************************************)
UnchangedLine(i) ==
    LET po == PayloadOf(Format, trace[i].line)
    IN  po = <<>> \/ (TextFinal(po[1]) = po[1] /\ ~Dropped(Format, po[1]))

ModifiedIffChanged ==
    run >= 1 =>
        /\ \A i \in 1..Len(trace) : UnchangedLine(i) => ~trace[i].modified
        /\ (\A i \in 1..Len(trace) : UnchangedLine(i)) => (ret = FALSE /\ ~wrote)

====
